---- MODULE Spec2Model ----
(***************************************************************************)
(* A model of src/main.py: the WebSocket relay whose handler               *)
(* (websocket_endpoint) appends each user message to the session's         *)
(* transcript and runs the tool loop (stream_llm_response) against the     *)
(* model service.                                                          *)
(*                                                                         *)
(* Scheduling.  Every handler is a coroutine on one asyncio event loop.    *)
(* A handler runs without interruption from one await that can suspend to  *)
(* the next; the suspending awaits are websocket.receive_json (line 187)   *)
(* and websocket.send_json (line 57).  claude.messages.create (lines 119   *)
(* and 146) is the synchronous client: it is not awaited and blocks the    *)
(* event loop, so no other handler takes a step while a call is in flight. *)
(* send_json hands the frame to the transport and then may suspend, so a   *)
(* send is part of the step that reaches it and the handler's next step    *)
(* starts right after it.                                                  *)
(*                                                                         *)
(* Strings are sequences of natural numbers (characters).  Python lists    *)
(* are objects: `lists` is the heap of the transcript lists, and a         *)
(* session state or a handler's local `messages` holds a reference.        *)
(***************************************************************************)
EXTENDS Integers, Sequences, FiniteSets, TLC

\* ------------------------------------------------------------- bounds
\* Connections (WebSocket handlers) that are ever opened.
MaxConns == 2
\* Model-service round-trips made in one behaviour, all runs together.
MaxCalls == 3
\* Content blocks in one model response.
MaxBlocks == 2
\* Clients that close their connection.
MaxCloses == 1

Conns == 1..MaxConns
SessionIds == {"s1", "s2"}
NoConn == 0
NoList == 0

VARIABLES
    pc,                 \* where each handler is suspended
    session_id,         \* the path parameter of each connection
    active_connections, \* SessionManager.active_connections: session id -> websocket
    session_states,     \* SessionManager.session_states: session id -> state dict
    lists,              \* heap of the `messages` list objects, one per connect
    messages,           \* websocket_endpoint local `messages`: a reference into lists
    frame,              \* the locals of the handler's running stream_llm_response
    response_text,      \* websocket_endpoint local `response_text` (line 197)
    sessions_table,     \* the `sessions` table: session id -> status
    ws_closed,          \* the client has closed the connection
    sent_n,             \* frames the client has sent on the connection
    recv_n,             \* frames receive_json has returned to the handler
    delivered,          \* frames handed to each websocket by send_json
    n_calls,            \* round-trips of the whole behaviour
    outcome,            \* the orchestrator state of the handler's latest run
    fault,              \* what aborted the handler's latest run, if anything
    seen,               \* what the service returned in the handler's run
    event_log_up,       \* an insert into event_logs succeeds at present
    log_failed          \* an insert of the handler's latest run has failed

vars == <<pc, session_id, active_connections, session_states, lists, messages,
          frame, response_text, sessions_table, ws_closed, sent_n, recv_n,
          delivered, n_calls, outcome, fault, seen, event_log_up, log_failed>>

\* ------------------------------------------------------------- data
Min(a, b) == IF a < b THEN a ELSE b

RECURSIVE SeqsUpTo(_, _)
SeqsUpTo(S, n) ==
    IF n = 0 THEN {<<>>}
    ELSE LET shorter == SeqsUpTo(S, n - 1)
         IN shorter \cup {Append(s, x) : s \in {t \in shorter : Len(t) = n - 1}, x \in S}

\* "abc123", "unknown", "s1" as character codes.
StrAbc123 == <<97, 98, 99, 49, 50, 51>>
StrUnknown == <<117, 110, 107, 110, 111, 119, 110>>
StrS1 == <<115, 49>>
StrUserSp == <<85, 115, 101, 114, 32>>
StrUser == <<117, 115, 101, 114>>
StrAtExample == <<64, 101, 120, 97, 109, 112, 108, 101, 46, 99, 111, 109>>

\* A JSON value of a tool input: a string, or a value that is no string.
StrVal(s) == [t |-> "str", s |-> s]
IntVal == [t |-> "int", s |-> <<>>]
\* A tool input dict with at most one key.
EmptyInput == [key |-> "", val |-> IntVal]
Input(k, v) == [key |-> k, val |-> v]

\* dict.get(key, default)
DictGet(input, key, default) == IF input.key = key THEN input.val ELSE default

\* user_id[:8]
Slice8(s) == SubSeq(s, 1, Min(8, Len(s)))

\* A call's outcome: the value returned, or the exception raised.
Returned(v) == [raised |-> FALSE, value |-> v]
Raised == [raised |-> TRUE, value |-> [json |-> [error |-> "TypeError"]]]

fetch_user_data(user_id) ==
    IF user_id.t # "str" THEN Raised
    ELSE Returned([user_id |-> user_id.s,
                   name |-> StrUserSp \o Slice8(user_id.s),
                   email |-> StrUser \o Slice8(user_id.s) \o StrAtExample,
                   account_status |-> "active"])

fetch_conversation_analytics(sid) ==
    Returned([session_id |-> sid, message_count |-> 5,
              avg_response_time |-> "1.2", sentiment |-> "positive"])

\* json.dumps of a dict: the serialised document, kept apart from the dict.
json_dumps(d) == [json |-> d]

process_tool_call(tool_name, tool_input) ==
    IF tool_name = "fetch_user_data"
    THEN LET r == fetch_user_data(DictGet(tool_input, "user_id", StrVal(StrUnknown)))
         IN IF r.raised THEN Raised ELSE Returned(json_dumps(r.value))
    ELSE IF tool_name = "fetch_conversation_analytics"
    THEN LET r == fetch_conversation_analytics(
                      DictGet(tool_input, "session_id", StrVal(StrUnknown)))
         IN IF r.raised THEN Raised ELSE Returned(json_dumps(r.value))
    ELSE Returned(json_dumps([error |-> "Unknown tool"]))

\* ------------------------------------------- the model service's answers
\* What a tool_use block may ask for.
ToolRequests ==
    { [name |-> "fetch_user_data", input |-> Input("user_id", StrVal(StrAbc123))],
      [name |-> "fetch_user_data", input |-> Input("user_id", IntVal)],
      [name |-> "fetch_conversation_analytics", input |-> Input("session_id", StrVal(StrS1))],
      [name |-> "lookup_weather", input |-> EmptyInput] }

TextBlock(n, j) == [type |-> "text", text |-> <<n, j>>]
ToolUseBlock(n, j, q) ==
    [type |-> "tool_use", id |-> <<n, j>>, name |-> q.name, input |-> q.input]

BlockKinds == {[text |-> TRUE, q |-> [name |-> "", input |-> EmptyInput]]}
              \cup {[text |-> FALSE, q |-> q] : q \in ToolRequests}

\* The content of the n-th round-trip's response: up to MaxBlocks blocks; the
\* service gives every invocation its own id and, here, every fragment its
\* own text.
ContentKinds == SeqsUpTo(BlockKinds, MaxBlocks)
Contents(n) ==
    { [j \in 1..Len(ks) |-> IF ks[j].text THEN TextBlock(n, j)
                            ELSE ToolUseBlock(n, j, ks[j].q)]
      : ks \in ContentKinds }

Answer(stop, content) == [raised |-> FALSE, stop_reason |-> stop, content |-> content]
ServiceError == [raised |-> TRUE, stop_reason |-> "", content |-> <<>>]
NoResponse == Answer("", <<>>)

\* ---------------------------------------------------------- transcript
TextTurn(role, text) == [role |-> role, kind |-> "text", text |-> text, blocks |-> <<>>]
BlocksTurn(role, blocks) == [role |-> role, kind |-> "blocks", text |-> <<>>, blocks |-> blocks]

\* The text of the k-th frame a client sends on connection c.
UserText(c, k) == <<0, c, k>>

IsPrefix(s, t) == Len(s) <= Len(t) /\ SubSeq(t, 1, Len(s)) = s

\* ------------------------------------------------------------- events
\* A frame sent to a client.  `run` is not part of the frame: it records the
\* connection and the frame number of the user message whose run emitted it.
Event(type, tool, content, error, run) ==
    [type |-> type, tool |-> tool, content |-> content, error |-> error, run |-> run]

RunOf(c) == <<c, recv_n[c]>>

\* What send_json does on a connection the client has closed: the frame is
\* dropped silently, or the send raises WebSocketDisconnect or another
\* exception (RuntimeError), depending on the server library.  Once a send
\* on a websocket has raised, the next send on it raises an exception that is
\* no WebSocketDisconnect.
ClosedSendModes == {"lost", "WebSocketDisconnect", "RuntimeError"}

SendModes(s) ==
    IF active_connections[s] # NoConn /\ ws_closed[active_connections[s]]
    THEN ClosedSendModes ELSE {"ok"}

\* SessionManager.send_message on the frames `dl` delivered so far: the
\* frames delivered afterwards and the exception raised, if any.
send_message(dl, s, message, mode) ==
    LET ws == active_connections[s]
    IN IF ws = NoConn THEN [dl |-> dl, exc |-> "none"]
       ELSE IF ~ws_closed[ws]
       THEN [dl |-> [dl EXCEPT ![ws] = Append(@, message)], exc |-> "none"]
       ELSE IF mode = "lost" THEN [dl |-> dl, exc |-> "none"]
       ELSE [dl |-> dl, exc |-> mode]

\* SessionManager.disconnect
disconnect(ac, s) == [ac EXCEPT ![s] = NoConn]

\* ---------------------------------------------------------- the frame
\* The locals of one activation of stream_llm_response: `response`,
\* `response_text`, the number `i` of tool calls of the current round already
\* notified, the messages= argument of the latest model call, and the number
\* of model calls the activation has made, counted up to MaxCalls; `tick`
\* changes with every call, so that a call and the next one are different
\* states even when all the rest repeats.  `invocations` is no local: it
\* lists the calls of process_tool_call made in the current round, in the
\* order made.  The frame is gone when the function returns or raises.
NoFrame == [response |-> NoResponse, response_text |-> <<>>, i |-> 0,
            call_messages |-> <<>>, calls |-> 0, tick |-> FALSE,
            invocations |-> <<>>]

\* What the model service returned in a run, kept while the run is under way
\* and after it is done: `frags`, the text fragments, and `asked`, the tool
\* names asked for, both in the order the service returned them.
NothingSeen == [frags |-> <<>>, asked |-> <<>>]

\* ------------------------------------------------- how a step can end
\* The run's record after a step that leaves the run in state `oc`.
Keep(c, oc, sn) == [seen EXCEPT ![c] = IF oc = "failed" THEN NothingSeen ELSE sn]

\* The handler suspends at `at` with frame `fr`; `ft` is what aborted its
\* run, if anything.
Suspend(c, dl, at, oc, ft, fr, sn) ==
    /\ pc' = [pc EXCEPT ![c] = at]
    /\ delivered' = dl
    /\ outcome' = [outcome EXCEPT ![c] = oc]
    /\ fault' = [fault EXCEPT ![c] = ft]
    /\ frame' = [frame EXCEPT ![c] = fr]
    /\ seen' = Keep(c, oc, sn)
    /\ UNCHANGED <<active_connections, sessions_table>>

\* Lines 206-209: WebSocketDisconnect leaves the receive loop.  `at` tells a
\* disconnect raised by receive_json ("closed") from one raised by a send
\* ("closed_by_send").
OnDisconnect(c, dl, at, oc, ft, sn) ==
    /\ pc' = [pc EXCEPT ![c] = at]
    /\ delivered' = dl
    /\ active_connections' = disconnect(active_connections, session_id[c])
    /\ sessions_table' = [sessions_table EXCEPT ![session_id[c]] = "completed"]
    /\ outcome' = [outcome EXCEPT ![c] = oc]
    /\ fault' = [fault EXCEPT ![c] = ft]
    /\ frame' = [frame EXCEPT ![c] = NoFrame]
    /\ seen' = Keep(c, oc, sn)

\* Lines 202-204: an exception of the run is caught and the error frame is
\* sent; what that send raises leaves the loop (WebSocketDisconnect, lines
\* 206-209) or the handler (anything else is caught nowhere).
OnException(c, dl, oc, ft, error, mode, sn) ==
    LET s == send_message(dl, session_id[c],
                          Event("error", "", <<>>, error, RunOf(c)), mode)
    IN IF s.exc = "none" THEN Suspend(c, s.dl, "receive", oc, ft, NoFrame, sn)
       ELSE IF s.exc = "WebSocketDisconnect"
       THEN OnDisconnect(c, s.dl, "closed_by_send", oc, ft, sn)
       ELSE Suspend(c, s.dl, "crashed", oc, ft, NoFrame, sn)

\* --------------------------------------------------------------- state
NoSession == ""
NoState == [present |-> FALSE, messages |-> NoList, user_id |-> NoConn]

Init ==
    /\ pc = [c \in Conns |-> "init"]
    /\ session_id = [c \in Conns |-> NoSession]
    /\ active_connections = [s \in SessionIds |-> NoConn]
    /\ session_states = [s \in SessionIds |-> NoState]
    /\ lists = [c \in Conns |-> <<>>]
    /\ messages = [c \in Conns |-> NoList]
    /\ frame = [c \in Conns |-> NoFrame]
    /\ response_text = [c \in Conns |-> <<>>]
    /\ sessions_table = [s \in SessionIds |-> "none"]
    /\ ws_closed = [c \in Conns |-> FALSE]
    /\ sent_n = [c \in Conns |-> 0]
    /\ recv_n = [c \in Conns |-> 0]
    /\ delivered = [c \in Conns |-> <<>>]
    /\ n_calls = 0
    /\ outcome = [c \in Conns |-> "idle"]
    /\ fault = [c \in Conns |-> "none"]
    /\ seen = [c \in Conns |-> NothingSeen]
    /\ event_log_up = TRUE
    /\ log_failed = [c \in Conns |-> FALSE]

\* The event loop is blocked inside a synchronous model call.
Blocked == \E c \in Conns : pc[c] = "calling"

\* The transcript stored for a session id.
Transcript(s) ==
    IF session_states[s].present THEN lists[session_states[s].messages] ELSE <<>>

\* Frames sent by clients and not yet returned by receive_json.
RECURSIVE PendingUpTo(_)
PendingUpTo(k) == IF k = 0 THEN 0 ELSE PendingUpTo(k - 1) + (sent_n[k] - recv_n[k])
Pending == PendingUpTo(MaxConns)

\* Handlers inside a tool round: each will make another model call.
Owed == Cardinality({c \in Conns : pc[c] = "tools"})

\* Another round-trip fits the bound of the model, the round-trips that the
\* frames and tool rounds under way will make counted in.
CanCallAgain == n_calls + Pending + Owed < MaxCalls

\* ------------------------------------------------ stream_llm_response
\* Lines 128-130 and 154-156: the text blocks of a response, appended in
\* content order; hasattr(block, 'text') holds of the text blocks.
\* A faulty accumulation: of the blocks of a response only the last one is
\* looked at.
AccumulateText_LastBlockOnly(text, content) ==
    IF content = <<>> THEN text
    ELSE IF content[Len(content)].type = "text"
         THEN text \o content[Len(content)].text
         ELSE text

RECURSIVE AccumulateText(_, _)
AccumulateText(text, content) ==
    IF content = <<>> THEN text
    ELSE AccumulateText(IF Head(content).type = "text" THEN text \o Head(content).text
                        ELSE text,
                        Tail(content))

\* Line 132
ToolCalls(content) == SelectSeq(content, LAMBDA b : b.type = "tool_use")

\* A faulty pairing: the last tool call gets no result.
ToolResults_DropLast(tcs) ==
    [k \in 1..(Len(tcs) - 1) |->
        [type |-> "tool_result", tool_use_id |-> tcs[k].id,
         content |-> process_tool_call(tcs[k].name, tcs[k].input).value]]

\* Line 143
ToolResults(tcs) ==
    [k \in 1..Len(tcs) |->
        [type |-> "tool_result", tool_use_id |-> tcs[k].id,
         content |-> process_tool_call(tcs[k].name, tcs[k].input).value]]

\* Lines 142-144
MessagesWithResponse(msgs, content) ==
    Append(msgs \o <<BlocksTurn("assistant", content)>>,
           BlocksTurn("user", ToolResults(ToolCalls(content))))

\* One call process_tool_call(tool_call.name, tool_call.input) that returned.
Invocation(tool_call) ==
    [id |-> tool_call.id, name |-> tool_call.name,
     result |-> process_tool_call(tool_call.name, tool_call.input).value]

\* claude.messages.create is entered with `msgs` (lines 119 and 146).
IssueCall(fr, msgs) ==
    [fr EXCEPT !.call_messages = msgs, !.calls = Min(@ + 1, MaxCalls),
               !.tick = ~@]

\* Lines 134-152 with frame fr, from tool call fr.i + 1 of fr.response on, up
\* to the next suspension.  While the session id is registered, that is the
\* send_json of the next tool call's notification.  While it is not,
\* send_message (line 56) awaits nothing and the handler runs on through
\* the tool calls that are left, to the exception of the first one that
\* raises or to the next model call.
ContinueRound(c, fr, sn) ==
    LET tcs == ToolCalls(fr.response.content)
        s == session_id[c]
        left == (fr.i + 1)..Len(tcs)
    IN IF fr.i < Len(tcs) /\ active_connections[s] # NoConn
       THEN LET tool_call == tcs[fr.i + 1]
                tool_result == process_tool_call(tool_call.name, tool_call.input)
            IN /\ UNCHANGED n_calls
               /\ IF tool_result.raised
                  THEN \E m \in SendModes(s) :
                         OnException(c, delivered, "failed", "tool", "TypeError", m, sn)
                  ELSE \E m \in SendModes(s) :
                         LET sent == send_message(delivered, s,
                                        Event("tool_use", tool_call.name, <<>>, "", RunOf(c)), m)
                         IN IF sent.exc = "none"
                            THEN Suspend(c, sent.dl, "tools", "running", "none",
                                         [fr EXCEPT !.i = @ + 1,
                                                    !.invocations = Append(@, Invocation(tool_call))],
                                         sn)
                            ELSE OnException(c, sent.dl, "failed", "send", sent.exc,
                                             "RuntimeError", sn)
       ELSE IF \E k \in left : process_tool_call(tcs[k].name, tcs[k].input).raised
       THEN /\ UNCHANGED n_calls
            /\ \E m \in SendModes(s) :
                 OnException(c, delivered, "failed", "tool", "TypeError", m, sn)
       ELSE /\ n_calls' = Min(n_calls + 1, MaxCalls)
            /\ Suspend(c, delivered, "calling", "running", "none",
                       IssueCall([fr EXCEPT
                                    !.i = Len(tcs),
                                    !.invocations =
                                        @ \o [k \in 1..(Len(tcs) - fr.i) |->
                                                  Invocation(tcs[fr.i + k])]
                                          \o [k \in 1..Len(tcs) |-> Invocation(tcs[k])]],
                                 MessagesWithResponse(lists[messages[c]],
                                                      fr.response.content)),
                       sn)

\* ------------------------------------------------- websocket_endpoint
\* An unguarded log_event: what the insert raises reaches the caller.
log_event_Unguarded(up) == [raised |-> ~up, logged |-> up]

\* Lines 160-170: the record is inserted into event_logs; what the insert
\* raises is caught at line 169 and printed, and log_event returns.
log_event(up) == [raised |-> FALSE, logged |-> up]

\* SessionManager.update_session_state
update_session_state(st, s, list) ==
    IF st[s].present THEN [st EXCEPT ![s].messages = list] ELSE st

\* Lines 174-184: the connection is registered under its session id, the
\* session record is inserted and the connection frame is sent.  Connections
\* are numbered in the order they are accepted, and the session ids being
\* interchangeable, the first one is given "s1".
Connect(c, s) ==
    /\ pc[c] = "init"
    /\ \A d \in 1..(c - 1) : pc[d] # "init"
    /\ c = 1 => s = "s1"
    /\ ~Blocked
    /\ session_id' = [session_id EXCEPT ![c] = s]
    /\ active_connections' = [active_connections EXCEPT ![s] = c]
    /\ session_states' = [session_states EXCEPT
                            ![s] = [present |-> TRUE, messages |-> c, user_id |-> c]]
    /\ lists' = [lists EXCEPT ![c] = <<>>]
    /\ sessions_table' = [sessions_table EXCEPT ![s] = "active"]
    /\ delivered' = [delivered EXCEPT
                       ![c] = Append(@, Event("connection", "", <<>>, "", <<c, 0>>))]
    /\ pc' = [pc EXCEPT ![c] = "receive"]
    /\ UNCHANGED <<messages, frame, response_text, ws_closed, sent_n, recv_n,
                   n_calls, outcome, fault, seen, event_log_up, log_failed>>

\* Lines 187-197 and 116-125: a frame is received, the user turn is appended
\* to the session's list and the first model call is entered.
Receive(c) ==
    /\ pc[c] = "receive"
    /\ ~Blocked
    /\ recv_n[c] < sent_n[c]
    /\ LET log == log_event(event_log_up)
           list == session_states[session_id[c]].messages
           turns == Append(lists[list], TextTurn("user", UserText(c, recv_n[c] + 1)))
       IN /\ recv_n' = [recv_n EXCEPT ![c] = @ + 1]
          /\ log_failed' = [log_failed EXCEPT ![c] = ~log.logged]
          /\ IF log.raised
             THEN \* line 190 is outside the try block: the handler ends
                  /\ Suspend(c, delivered, "crashed", outcome[c], "log", NoFrame, seen[c])
                  /\ UNCHANGED <<messages, lists, n_calls>>
             ELSE /\ messages' = [messages EXCEPT ![c] = list]
                  /\ lists' = [lists EXCEPT ![list] = turns]
                  /\ n_calls' = Min(n_calls + 1, MaxCalls)
                  /\ Suspend(c, delivered, "calling", "running", "none",
                             IssueCall(NoFrame, turns), NothingSeen)
    /\ UNCHANGED <<session_id, session_states, response_text, ws_closed, sent_n,
                   event_log_up>>

\* Lines 187 and 206-209: receive_json raises WebSocketDisconnect once the
\* client has closed and its frames are used up.
ReceiveDisconnect(c) ==
    /\ pc[c] = "receive"
    /\ ~Blocked
    /\ recv_n[c] = sent_n[c]
    /\ ws_closed[c]
    /\ OnDisconnect(c, delivered, "closed", outcome[c], fault[c], seen[c])
    /\ UNCHANGED <<session_id, session_states, lists, messages, response_text,
                   ws_closed, sent_n, recv_n, n_calls, event_log_up, log_failed>>

\* The text fragments of a response as the service sent them: the texts of
\* its text blocks, first to last.
RECURSIVE Fragments(_)
Fragments(content) ==
    IF content = <<>> THEN <<>>
    ELSE Fragments(SubSeq(content, 1, Len(content) - 1))
         \o (IF content[Len(content)].type = "text"
             THEN <<content[Len(content)].text>> ELSE <<>>)

\* The tool names a response asks for, first to last: those of the tool_use
\* blocks of a response whose stop condition is needs-tool.
RECURSIVE RequestedIn(_)
RequestedIn(content) ==
    IF content = <<>> THEN <<>>
    ELSE RequestedIn(SubSeq(content, 1, Len(content) - 1))
         \o (IF content[Len(content)].type = "tool_use"
             THEN <<content[Len(content)].name>> ELSE <<>>)
Requested(r) == IF r.stop_reason = "tool_use" THEN RequestedIn(r.content) ELSE <<>>

\* The answers the service may give to the call in flight: an error, a final
\* answer of text blocks, or a request for tools, which the bound of the
\* model allows while another round-trip fits or when the content is empty.
Answers ==
    {ServiceError}
    \cup {Answer("end_turn", ct) : ct \in {x \in Contents(n_calls) : ToolCalls(x) = <<>>}}
    \cup {Answer("tool_use", ct) : ct \in {x \in Contents(n_calls) : x = <<>> \/ CanCallAgain}}

\* Lines 154-158 and 198-201: the final response's text is added and
\* returned, the assistant turn is appended, the state is updated and the
\* response sent.
Finish(c, fr, sn) ==
    LET text == AccumulateText(fr.response_text, fr.response.content)
        s == session_id[c]
        log == log_event(event_log_up)
    IN /\ response_text' = [response_text EXCEPT ![c] = text]
       /\ log_failed' = [log_failed EXCEPT ![c] = @ \/ ~log.logged]
       /\ UNCHANGED n_calls
       /\ IF log.raised
          THEN \* line 198 is inside the try block: a run error
               /\ UNCHANGED <<lists, session_states>>
               /\ \E m \in SendModes(s) :
                    OnException(c, delivered, "failed", "log", "LogError", m, sn)
          ELSE /\ lists' = [lists EXCEPT
                               ![messages[c]] = Append(@, TextTurn("assistant", text))]
               /\ session_states' = update_session_state(session_states, s, messages[c])
               /\ \E m \in SendModes(s) :
                    LET sent == send_message(delivered, s,
                                    Event("response", "", text, "", RunOf(c)), m)
                    IN IF sent.exc = "none"
                       THEN Suspend(c, sent.dl, "receive", "done", "none", NoFrame, sn)
                       ELSE OnException(c, sent.dl, "done", "send", sent.exc,
                                        "RuntimeError", sn)

\* The model call in flight returns or raises, and the handler runs on to its
\* next suspension.
ModelReturn(c) ==
    /\ pc[c] = "calling"
    /\ \E r \in Answers :
         IF r.raised
         THEN /\ \E m \in SendModes(session_id[c]) :
                   OnException(c, delivered, "failed", "model", "ServiceError", m,
                               seen[c])
              /\ UNCHANGED <<response_text, lists, session_states, n_calls,
                             log_failed>>
         ELSE LET sn == [frags |-> seen[c].frags \o Fragments(r.content),
                         asked |-> seen[c].asked \o Requested(r)]
              IN IF r.stop_reason = "tool_use"
                 THEN /\ ContinueRound(c, [frame[c] EXCEPT
                              !.response = r,
                              !.response_text = AccumulateText(@, r.content),
                              !.i = 0,
                              !.invocations = <<>>], sn)
                      /\ UNCHANGED <<response_text, lists, session_states,
                                     log_failed>>
                 ELSE Finish(c, [frame[c] EXCEPT !.response = r], sn)
    /\ UNCHANGED <<session_id, messages, ws_closed, sent_n, recv_n, event_log_up>>

\* The handler resumes after a tool notification.
ToolStep(c) ==
    /\ pc[c] = "tools"
    /\ ~Blocked
    /\ ContinueRound(c, frame[c], seen[c])
    /\ UNCHANGED <<session_id, session_states, lists, messages, response_text,
                   ws_closed, sent_n, recv_n, event_log_up, log_failed>>

\* ---------------------------------------------------------- the clients
Open(c) == pc[c] \in {"receive", "calling", "tools"}

\* The client sends a frame {message: ...}.
ClientSend(c) ==
    /\ Open(c)
    /\ ~ws_closed[c]
    /\ CanCallAgain
    /\ sent_n' = [sent_n EXCEPT ![c] = @ + 1]
    /\ UNCHANGED <<pc, session_id, active_connections, session_states, lists,
                   messages, frame, response_text, sessions_table, ws_closed,
                   recv_n, delivered, n_calls, outcome, fault, seen,
                   event_log_up, log_failed>>

\* The client closes the connection; at most MaxCloses clients do.  The
\* frames it has sent are still handed to the handler, and receive_json
\* raises after the last of them.
ClientClose(c) ==
    /\ Open(c)
    /\ ~ws_closed[c]
    /\ Cardinality({d \in Conns : ws_closed[d]}) < MaxCloses
    /\ ws_closed' = [ws_closed EXCEPT ![c] = TRUE]
    /\ UNCHANGED <<pc, session_id, active_connections, session_states, lists,
                   messages, frame, response_text, sessions_table, sent_n,
                   recv_n, delivered, n_calls, outcome, fault, seen,
                   event_log_up, log_failed>>

\* The event log starts or stops taking inserts.
LogFlip ==
    /\ event_log_up' = ~event_log_up
    /\ UNCHANGED <<pc, session_id, active_connections, session_states, lists,
                   messages, frame, response_text, sessions_table, ws_closed,
                   sent_n, recv_n, delivered, n_calls, outcome, fault, seen,
                   log_failed>>

Next ==
    \/ \E c \in Conns, s \in SessionIds : Connect(c, s)
    \/ \E c \in Conns : Receive(c)
    \/ \E c \in Conns : ReceiveDisconnect(c)
    \/ \E c \in Conns : ModelReturn(c)
    \/ \E c \in Conns : ToolStep(c)
    \/ \E c \in Conns : ClientSend(c)
    \/ \E c \in Conns : ClientClose(c)

Spec == Init /\ [][Next]_vars

\* --------------------------------------------------------- properties
\* A run of the handler's tool loop is in flight.
InFlight(c) == pc[c] \in {"calling", "tools"}

\* A follow-up model call of c's run is in flight.
FollowUpCall(c) == pc[c] = "calling" /\ frame[c].calls > 1

Last(q) == q[Len(q)]

RECURSIVE Join(_)
Join(fs) == IF fs = <<>> THEN <<>> ELSE Head(fs) \o Join(Tail(fs))

\* The frames of run <<c, k>> handed to websocket w, in the order of delivery.
FramesOf(w, c, k) == SelectSeq(delivered[w], LAMBDA e : e.run = <<c, k>>)

\* C1: while a model call after the first is in flight, the carrier turn it
\* was issued with holds exactly one tool result per tool request of the
\* response it follows, in the order of the requests, each with the id of
\* its request.
C1_OneResultPerRequest ==
    \A c \in Conns :
        FollowUpCall(c) =>
            LET requests == SelectSeq(frame[c].response.content,
                                      LAMBDA b : b.type = "tool_use")
                carrier == Last(frame[c].call_messages)
            IN /\ carrier.role = "user"
               /\ carrier.kind = "blocks"
               /\ Len(carrier.blocks) = Len(requests)
               /\ \A k \in 1..Len(requests) :
                     /\ carrier.blocks[k].type = "tool_result"
                     /\ carrier.blocks[k].tool_use_id = requests[k].id

\* A follow-up call is in flight after a response with two tool requests.
C1_Witness ==
    \E c \in Conns :
        /\ FollowUpCall(c)
        /\ Len(SelectSeq(frame[c].response.content, LAMBDA b : b.type = "tool_use")) = 2

\* C2: a step that issues a model call after the first issues it with the
\* messages of the call before, followed by the assistant turn of the
\* response to that call and by its tool-result carrier turn.
C2_ExtendedTranscriptReplayed ==
    [][\A c \in Conns :
          (frame[c].calls >= 1 /\ frame'[c].calls = frame[c].calls + 1) =>
              LET old == frame[c].call_messages
                  new == frame'[c].call_messages
              IN /\ Len(new) = Len(old) + 2
                 /\ SubSeq(new, 1, Len(old)) = old
                 /\ new[Len(old) + 1] = BlocksTurn("assistant", frame'[c].response.content)
                 /\ new[Len(old) + 2].role = "user"
                 /\ new[Len(old) + 2].kind = "blocks"]_vars

\* C3: while a model call after the first is in flight, the transcript of
\* the list the run appends to ends with the assistant turn that carries the
\* tool requests and with the carrier turn of the results.
C3_ToolTurnsInTranscript ==
    \A c \in Conns :
        FollowUpCall(c) =>
            LET t == lists[messages[c]]
            IN /\ Len(t) >= 2
               /\ t[Len(t) - 1] = BlocksTurn("assistant", frame[c].response.content)
               /\ t[Len(t)] = Last(frame[c].call_messages)

\* C4: the text a completed run returned is the concatenation of every text
\* fragment the service returned in the run, in the order returned, and the
\* response frame of the run carries that text.
C4_ReturnedTextIsAllFragments ==
    \A c \in Conns :
        outcome[c] = "done" =>
            /\ response_text[c] = Join(seen[c].frags)
            /\ \A w \in Conns : \A k \in 1..Len(delivered[w]) :
                  (delivered[w][k].type = "response" /\ delivered[w][k].run = RunOf(c))
                      => delivered[w][k].content = Join(seen[c].frags)

\* A completed run that got text in two responses, two fragments in one.
C4_Witness ==
    \E c \in Conns :
        /\ outcome[c] = "done"
        /\ Len(seen[c].frags) >= 3
        /\ \E i, j \in 1..Len(seen[c].frags) : seen[c].frags[i][1] # seen[c].frags[j][1]
        /\ \E w \in Conns : \E k \in 1..Len(delivered[w]) :
              delivered[w][k].type = "response" /\ delivered[w][k].run = RunOf(c)

\* C5: the transcript stored for a session id only grows: what is stored
\* before a step is a prefix of what is stored after it.
C5_TranscriptAppendOnly ==
    [][\A s \in SessionIds : IsPrefix(Transcript(s), Transcript(s)')]_vars

\* C6: two connections of one session id never have a run in flight at the
\* same time.
C6_OneRunPerSession ==
    \A c, d \in Conns :
        (c # d /\ InFlight(c) /\ InFlight(d)) => session_id[c] # session_id[d]

\* C8: when the first model call of a run raises and the client of the
\* connection is there, the step delivers one error frame and nothing else
\* to that client, appends no turn, and leaves the handler receiving.
C8_FirstCallFailure ==
    [][\A c \in Conns :
          (/\ pc[c] = "calling"
           /\ frame[c].calls = 1
           /\ fault'[c] = "model"
           /\ ~ws_closed[c]) =>
              /\ delivered'[c] = Append(delivered[c],
                                        Event("error", "", <<>>, "ServiceError", RunOf(c)))
              /\ lists' = lists
              /\ pc'[c] = "receive"]_vars

\* C9: no send failure aborts a run or ends a handler.
C9_SendFailureSwallowed ==
    \A c \in Conns : fault[c] # "send" /\ pc[c] \notin {"closed_by_send", "crashed"}

\* C10: once a run is done, the client of its connection, if it is there,
\* has got the run's frames in the order emitted: one tool_use frame per
\* tool request, in request order, then one response frame with the text.
C10_FramesInOrder ==
    \A c \in Conns :
        (outcome[c] = "done" /\ ~ws_closed[c]) =>
            FramesOf(c, c, recv_n[c]) =
                [k \in 1..Len(seen[c].asked) |->
                    Event("tool_use", seen[c].asked[k], <<>>, "", RunOf(c))]
                \o <<Event("response", "", response_text[c], "", RunOf(c))>>

\* ------------------------------------------- termination of a run (C7)
\* One connection alone, under the fairness the event loop and the service
\* give: a handler that can run does run, and a call is answered.
LoopNext ==
    \/ \E s \in SessionIds : Connect(1, s)
    \/ Receive(1)
    \/ ReceiveDisconnect(1)
    \/ ModelReturn(1)
    \/ ToolStep(1)
    \/ ClientSend(1)
    \/ ClientClose(1)

LoopSpec ==
    /\ Init
    /\ [][LoopNext]_vars
    /\ WF_vars(Receive(1))
    /\ WF_vars(ModelReturn(1))
    /\ WF_vars(ToolStep(1))

\* C7: every run ends: a run under way is eventually done or failed.
C7_RunTerminates == (outcome[1] = "running") ~> (outcome[1] # "running")

\* C11: no run is ended by a tool: what a tool raises on the input the model
\* supplied is turned into a result and never leaves process_tool_call.
C11_ToolFailureContained == \A c \in Conns : fault[c] # "tool"

\* The tools of the registry (lines 86 and 89).
Registered == {"fetch_user_data", "fetch_conversation_analytics"}

UnknownToolResult == json_dumps([error |-> "Unknown tool"])

\* Handler c, suspended in a tool round, takes the step at hand.
RoundStep(c) == pc[c] = "tools" /\ frame'[c] # frame[c]

\* C12: a request for a tool that is not registered does not stop the loop.
\* The step that handles it raises nothing, has the unknown-tool payload as
\* the tool's result and leaves the run in its round or in its next model
\* call; the step after the last request issues the next model call, and
\* that call has the payload paired with the request's id.
C12_UnknownToolContinues ==
    [][\A c \in Conns :
          LET tcs == ToolCalls(frame[c].response.content)
              i == frame[c].i
          IN /\ (RoundStep(c) /\ i < Len(tcs) /\ tcs[i + 1].name \notin Registered) =>
                    /\ pc'[c] \in {"tools", "calling"}
                    /\ outcome'[c] = "running"
                    /\ frame'[c].i > i
                    /\ \E j \in 1..Len(frame'[c].invocations) :
                          frame'[c].invocations[j] =
                              [id |-> tcs[i + 1].id, name |-> tcs[i + 1].name,
                               result |-> UnknownToolResult]
             /\ (RoundStep(c) /\ i = Len(tcs)) => pc'[c] = "calling"
             /\ (RoundStep(c) /\ pc'[c] = "calling") =>
                    \A k \in 1..Len(tcs) :
                        tcs[k].name \notin Registered =>
                            Last(frame'[c].call_messages).blocks[k] =
                                [type |-> "tool_result", tool_use_id |-> tcs[k].id,
                                 content |-> UnknownToolResult]]_vars

\* The handler of c has left websocket_endpoint.
Ended(c) == pc[c] \in {"closed", "closed_by_send", "crashed"}

\* C13: a connection whose client has gone gets no further frame, and when
\* its handler ends, the connection is no longer registered with the manager
\* and the session record is completed.
C13_DisconnectSettles ==
    [][\A c \in Conns :
          /\ ws_closed[c] => delivered'[c] = delivered[c]
          /\ (ws_closed[c] /\ ~Ended(c) /\ Ended(c)') =>
                /\ active_connections'[session_id[c]] # c
                /\ sessions_table'[session_id[c]] = "completed"]_vars

\* C14: while the model call of one session is in flight, the handler of a
\* connection of another session id that has a frame to receive can take
\* its step.
C14_OthersServedDuringCall ==
    \A a, b \in Conns :
        (/\ pc[a] = "calling"
         /\ pc[b] = "receive"
         /\ session_id[b] # session_id[a]
         /\ recv_n[b] < sent_n[b]) => ENABLED Receive(b)

\* --------------------------------------------- failures of the event log
\* One connection, with an event log that fails and recovers at any time.
LogNext == LoopNext \/ LogFlip

LogSpec == Init /\ [][LogNext]_vars

\* C15: a failed insert into event_logs changes nothing of the run.  The
\* handler is not ended and the run is not failed by it, the user turn is
\* in the transcript, and a run that is done has returned the text of the
\* service's fragments, appended the assistant turn and sent the response
\* frame, as a run with its events logged does.
C15_LogFailureSwallowed ==
    \A c \in Conns :
        log_failed[c] =>
            /\ fault[c] # "log"
            /\ outcome[c] \in {"running", "done", "failed"}
            /\ outcome[c] = "running" =>
                  Last(lists[messages[c]]) = TextTurn("user", UserText(c, recv_n[c]))
            /\ outcome[c] = "done" =>
                  /\ response_text[c] = Join(seen[c].frags)
                  /\ Last(lists[messages[c]]) = TextTurn("assistant", response_text[c])
                  /\ ~ws_closed[c] =>
                        Last(delivered[c]) =
                            Event("response", "", response_text[c], "", RunOf(c))

\* A run is done and its response delivered though an insert failed.
C15_Witness ==
    \E c \in Conns :
        /\ log_failed[c]
        /\ outcome[c] = "done"
        /\ ~ws_closed[c]
        /\ Len(seen[c].asked) > 0
        /\ Last(delivered[c]).type = "response"

\* C16: a connection that opens under a session id that is active does not
\* get to its receive loop, and the connection registered under the id, the
\* user id and the transcript stored for it stay as they are.
C16_DuplicateSessionRejected ==
    [][\A c \in Conns, s \in SessionIds :
          (/\ pc[c] = "init"
           /\ pc'[c] # "init"
           /\ session_id'[c] = s
           /\ active_connections[s] # NoConn) =>
              /\ pc'[c] # "receive"
              /\ active_connections'[s] = active_connections[s]
              /\ session_states'[s].user_id = session_states[s].user_id
              /\ Transcript(s)' = Transcript(s)]_vars

\* C18: while a model call after the first is in flight, every tool request
\* of the response it follows has had exactly one call of process_tool_call
\* in the round, and the result of that call is the content of the request's
\* tool result.
C18_ToolInvokedOnce ==
    \A c \in Conns :
        FollowUpCall(c) =>
            LET tcs == ToolCalls(frame[c].response.content)
                inv == frame[c].invocations
            IN \A k \in 1..Len(tcs) :
                  /\ Len(SelectSeq(inv, LAMBDA v : v.id = tcs[k].id)) = 1
                  /\ \E j \in 1..Len(inv) :
                        /\ inv[j].id = tcs[k].id
                        /\ Last(frame[c].call_messages).blocks[k].content = inv[j].result

\* C19: a handler that ends removes no registration but its own, and every
\* frame of a run is delivered to the connection that submitted the run's
\* message.
C19_OnlyOwnSinkRemoved ==
    [][\A c \in Conns :
          /\ (~Ended(c) /\ Ended(c)') =>
                \A s \in SessionIds :
                    active_connections[s] # c =>
                        active_connections'[s] = active_connections[s]
          /\ \A k \in 1..Len(delivered'[c]) : delivered'[c][k].run[1] = c]_vars

\* Plain-text turns that alternate user, assistant, from a user turn on.
Alternates(t) ==
    \A k \in 1..Len(t) :
        /\ t[k].kind = "text"
        /\ t[k].role = IF k % 2 = 1 THEN "user" ELSE "assistant"

\* C20: while no run of a session id is in flight, the transcript stored
\* for the id is of plain-text turns that alternate user, assistant.
C20_TranscriptAlternates ==
    \A s \in SessionIds :
        (\A c \in Conns : session_id[c] = s => ~InFlight(c)) => Alternates(Transcript(s))

====
